---- MODULE Spec2Model ----
(***************************************************************************)
(* BIP32 hierarchical-deterministic key nodes (ts-src/index.ts).           *)
(*                                                                         *)
(* The field widths of the program (32-bit index, 8-bit depth, 256-bit     *)
(* scalars, 32-bit fingerprint) are scaled down to IndexBits, DepthBits,   *)
(* ScalarBits and FingerprintBits bits so that every boundary of the code  *)
(* (hardened bit, index overflow, depth byte overflow, scalar >= n) is     *)
(* within reach of exhaustive checking.  The curve is the cyclic group of  *)
(* order CurveOrder: a point is named by its discrete logarithm and is     *)
(* written, compressed, as <<prefix, x>> with prefix 2 or 3, P and -P      *)
(* sharing x.  The keyed hash is a fixed arithmetic mix of key and data.   *)
(***************************************************************************)
EXTENDS Integers, Sequences, FiniteSets, TLC

VARIABLES hd, res, pc, frame

vars == <<hd, res, pc, frame>>

----------------------------------------------------------------------------
(* Widths and sizes of the scaled model *)

IndexBits == 2

DepthBits == 2

ScalarBits == 3

CurveOrder == 5

ChainCodeBits == 1

FingerprintBits == 1

----------------------------------------------------------------------------
(* Program constants *)

HIGHEST_BIT == 2 ^ (IndexBits - 1)

UINT31_MAX == 2 ^ (IndexBits - 1) - 1

UINT32_MAX == 2 ^ IndexBits - 1

UINT8_MAX == 2 ^ DepthBits - 1

BUFFER_LENGTH == 78

SEED_MIN == 16

SEED_MAX == 64

BITCOIN == [wif |-> 128, bip32 |-> [public |-> 76067358, private |-> 76066276]]

\* JavaScript undefined / null for a scalar, for a point, for a network
undefined == -1

null == -1

NoPoint == <<>>

NoNetwork == [wif |-> -1, bip32 |-> [public |-> -1, private |-> -1]]

NoNode == [none |-> TRUE]

\* outcome of a call: a returned value or a thrown error
\* (`this` is the receiver as the call leaves it, NoNode for a static function)
Return(v) == [ok |-> TRUE, err |-> "", val |-> v, this |-> NoNode]

Throw(msg) == [ok |-> FALSE, err |-> msg, val |-> NoNode, this |-> NoNode]

On(this, r) == [r EXCEPT !.this = this]

Buf32(v) == [len |-> 32, val |-> v]

Buf33(P) == [len |-> 33, val |-> P]

----------------------------------------------------------------------------
(* typeforce predicates *)

UInt8(value) == value \in 0..UINT8_MAX

UInt32(value) == value \in 0..UINT32_MAX

UInt31(value) == UInt32(value) /\ value <= UINT31_MAX

WifByte(value) == value \in 0..255

VersionWord(value) == value \in Nat

NETWORK_TYPE(network) ==
    /\ WifByte(network.wif)
    /\ VersionWord(network.bip32.public)
    /\ VersionWord(network.bip32.private)

\* a buffer argument is [len |-> bytes, val |-> content]
UINT256_TYPE(buf) == buf.len = 32

BufferN33(buf) == buf.len = 33

----------------------------------------------------------------------------
(* Curve arithmetic (tiny-secp256k1) over the group of order CurveOrder *)

isPrivate(x) == x \in 1..(CurveOrder - 1)

pointCompress(k) == IF 2 * k <= CurveOrder THEN <<2, k>> ELSE <<3, CurveOrder - k>>

pointFromScalar(d) == pointCompress(d)

isPoint(P) == Len(P) = 2 /\ \E k \in 1..(CurveOrder - 1) : pointCompress(k) = P

pointScalar(P) == IF P[1] = 2 THEN P[2] ELSE CurveOrder - P[2]

privateAdd(d, tweak) ==
    LET s == (d + tweak) % CurveOrder
    IN  IF s = 0 THEN null ELSE s

pointAddScalar(P, tweak) ==
    LET s == (pointScalar(P) + tweak) % CurveOrder
    IN  IF s = 0 THEN NoPoint ELSE pointCompress(s)

----------------------------------------------------------------------------
(* Hashes (./crypto): the output is a pair of halves *)

RECURSIVE mix(_, _)
mix(data, i) ==
    IF i > Len(data) THEN 0 ELSE (2 * i + 1) * data[i] + mix(data, i + 1)

hmacSHA512(key, data) ==
    LET m == 5 * key + mix(data, 1) + 3
        q == m * m + (m \div 3)
    IN  <<q % (2 ^ ScalarBits), ((q \div 5) + key) % (2 ^ ChainCodeBits)>>

hash160(P) ==
    LET m == 3 * P[1] + 5 * P[2]
    IN  <<(m \div 2) % (2 ^ FingerprintBits), m % 7>>

\* the HMAC key 'Bitcoin seed'
BitcoinSeed == 11

----------------------------------------------------------------------------
(* class BIP32 *)

BIP32(d, Q, chainCode, network) ==
    IF ~NETWORK_TYPE(network)
    THEN Throw("Expected network")
    ELSE Return([d |-> d, Q |-> Q, chainCode |-> chainCode, network |-> network,
                 depth |-> 0, index |-> 0, parentFingerprint |-> 0])

fromPrivateKey(privateKey, chainCode, network) ==
    IF ~(UINT256_TYPE(privateKey) /\ UINT256_TYPE(chainCode))
    THEN Throw("Expected Buffer(Length: 32)")
    ELSE LET net == IF network = NoNetwork THEN BITCOIN ELSE network
         IN  IF ~isPrivate(privateKey.val)
             THEN Throw("Private key not in range [1, n)")
             ELSE BIP32(privateKey.val, NoPoint, chainCode.val, net)

fromPublicKey(publicKey, chainCode, network) ==
    IF ~(BufferN33(publicKey) /\ UINT256_TYPE(chainCode))
    THEN Throw("Expected Buffer(Length: 33)")
    ELSE LET net == IF network = NoNetwork THEN BITCOIN ELSE network
         IN  IF ~isPoint(publicKey.val)
             THEN Throw("Point is not on the curve")
             ELSE BIP32(undefined, publicKey.val, chainCode.val, net)

\* a seed is [len |-> bytes, val |-> content]
\* seedTooShort with the lower bound taken exclusive (a faulty variant, for C8)
seedTooShortInclusive(seed) == seed.len <= SEED_MIN

seedTooShort(seed) == seed.len < SEED_MIN

seedTooLong(seed) == seed.len > SEED_MAX

fromSeed(seed, network) ==
    IF seedTooShort(seed) THEN Throw("Seed should be at least 128 bits")
    ELSE IF seedTooLong(seed) THEN Throw("Seed should be at most 512 bits")
    ELSE LET net == IF network = NoNetwork THEN BITCOIN ELSE network
             I   == hmacSHA512(BitcoinSeed, <<seed.len, seed.val>>)
             IL  == I[1]
             IR  == I[2]
         IN  fromPrivateKey(Buf32(IL), Buf32(IR), net)

publicKey(this) == IF this.Q = NoPoint THEN pointFromScalar(this.d) ELSE this.Q

\* the receiver once the publicKey getter has run: __Q is cached
touch(this) == [this EXCEPT !.Q = publicKey(this)]

privateKey(this) == this.d

identifier(this) == hash160(publicKey(this))

fingerprint(this) == identifier(this)[1]

isNeutered(this) == this.d = undefined

\* the tree-position fields assigned to a freshly constructed node
Positioned(r, depth, index, parentFingerprint) ==
    IF r.ok
    THEN [r EXCEPT !.val = [r.val EXCEPT !.depth = depth, !.index = index,
                                         !.parentFingerprint = parentFingerprint]]
    ELSE r

neutered(this) ==
    On(touch(this),
       Positioned(fromPublicKey(Buf33(publicKey(this)), Buf32(this.chainCode), this.network),
                  this.depth, this.index, this.parentFingerprint))

----------------------------------------------------------------------------
(* Serialization.  The 78-byte buffer is the record of its fields; key is   *)
(* <<byte 45, bytes 46..77>>.  A Base58Check string is the payload and its  *)
(* checksum.                                                                *)

checksum(payload) ==
    (payload.version + payload.depth + 3 * payload.parentFingerprint + 5 * payload.index
       + 7 * payload.chainCode + 11 * payload.key[1] + 13 * payload.key[2]
       + payload.length) % 16

bs58checkEncode(payload) == [payload |-> payload, checksum |-> checksum(payload)]

bs58checkDecode(string) ==
    IF string.checksum # checksum(string.payload)
    THEN Throw("Invalid checksum")
    ELSE Return(string.payload)

toBase58(this) ==
    LET network == this.network
        version == IF ~isNeutered(this) THEN network.bip32.private ELSE network.bip32.public
        key     == IF ~isNeutered(this) THEN <<0, privateKey(this)>> ELSE publicKey(this)
        this1   == IF ~isNeutered(this) THEN this ELSE touch(this)
        buffer  == [version |-> version, depth |-> this.depth,
                    parentFingerprint |-> this.parentFingerprint, index |-> this.index,
                    chainCode |-> this.chainCode, key |-> key, length |-> BUFFER_LENGTH]
    IN  IF ~UInt8(this.depth)
        THEN On(this, Throw("The value of \"value\" is out of range"))
        ELSE IF ~UInt32(this.index)
        THEN On(this, Throw("The value of \"value\" is out of range"))
        ELSE On(this1, Return(bs58checkEncode(buffer)))

invalidParentFingerprint(depth, parentFingerprint) == depth = 0 /\ parentFingerprint # 0

\* invalidIndex with the index of a root left unchecked (a faulty variant, for C4)
invalidIndexUnchecked(depth, index) == FALSE

invalidIndex(depth, index) == depth = 0 /\ index # 0

fromBase58(string, network) ==
    LET decoded == bs58checkDecode(string)
        buffer  == decoded.val
        net     == IF network = NoNetwork THEN BITCOIN ELSE network
    IN  IF ~decoded.ok THEN decoded
        ELSE IF buffer.length # BUFFER_LENGTH THEN Throw("Invalid buffer length")
        ELSE IF buffer.version # net.bip32.private /\ buffer.version # net.bip32.public
        THEN Throw("Invalid network version")
        ELSE IF invalidParentFingerprint(buffer.depth, buffer.parentFingerprint)
        THEN Throw("Invalid parent fingerprint")
        ELSE IF invalidIndex(buffer.depth, buffer.index)
        THEN Throw("Invalid index")
        ELSE IF buffer.version = net.bip32.private
        THEN IF buffer.key[1] # 0
             THEN Throw("Invalid private key")
             ELSE Positioned(fromPrivateKey(Buf32(buffer.key[2]), Buf32(buffer.chainCode), net),
                             buffer.depth, buffer.index, buffer.parentFingerprint)
        ELSE Positioned(fromPublicKey(Buf33(buffer.key), Buf32(buffer.chainCode), net),
                        buffer.depth, buffer.index, buffer.parentFingerprint)

----------------------------------------------------------------------------
(* Derivation *)

\* isHardened with the hardened range starting one late (a faulty variant, for C2)
isHardenedAbove(index) == index > HIGHEST_BIT

isHardened(index) == index >= HIGHEST_BIT

\* data = 0x00 || ser256(kpar) || ser32(index), or serP(Kpar) || ser32(index)
deriveData(this, index) ==
    IF isHardened(index)
    THEN <<0, privateKey(this), index>>
    ELSE publicKey(this) \o <<index>>

Recurse(this) == [recurse |-> TRUE, out |-> On(this, Return(NoNode))]

Leave(r) == [recurse |-> FALSE, out |-> r]

\* nextIndex repeating the rejected index (a faulty variant, for C10)
nextIndexSame(index) == index

\* nextIndex skipping an index (a faulty variant, for C9)
nextIndexSkip(index) == index + 2

\* the index the recursive call is given
nextIndex(index) == index + 1

\* the depth the returned child carries
childDepth(this) == this.depth + 1

\* one activation of derive: it leaves with a result, or calls derive(index + 1)
deriveFrame(this, index) ==
    IF ~UInt32(index) THEN Leave(On(this, Throw("Expected UInt32")))
    ELSE IF isHardened(index) /\ isNeutered(this)
    THEN Leave(On(this, Throw("Missing private key for hardened child key")))
    ELSE LET this1 == IF isHardened(index) THEN this ELSE touch(this)
             I     == hmacSHA512(this.chainCode, deriveData(this, index))
             IL    == I[1]
             IR    == I[2]
         IN  IF ~isPrivate(IL) THEN Recurse(this1)
             ELSE IF ~isNeutered(this)
             THEN LET ki == privateAdd(privateKey(this), IL)
                  IN  IF ki = null THEN Recurse(this1)
                      ELSE Leave(On(touch(this1),
                                    Positioned(fromPrivateKey(Buf32(ki), Buf32(IR), this.network),
                                               childDepth(this), index,
                                               fingerprint(this))))
             ELSE LET Ki == pointAddScalar(publicKey(this), IL)
                  IN  IF Ki = NoPoint THEN Recurse(this1)
                      ELSE Leave(On(touch(this1),
                                    Positioned(fromPublicKey(Buf33(Ki), Buf32(IR), this.network),
                                               childDepth(this), index,
                                               fingerprint(this))))

RECURSIVE derive(_, _)
derive(this, index) ==
    LET f == deriveFrame(this, index)
    IN  IF f.recurse THEN derive(f.out.this, nextIndex(index)) ELSE f.out

deriveHardened(this, index) ==
    IF ~UInt31(index)
    THEN On(this, Throw("Expected UInt31"))
    ELSE derive(this, index + HIGHEST_BIT)

----------------------------------------------------------------------------
(* Path resolution.  A path is the sequence of its characters. *)

Digits == <<"0", "1", "2", "3", "4", "5", "6", "7", "8", "9">>

isDigit(c) == \E i \in 1..10 : Digits[i] = c

digitValue(c) == (CHOOSE i \in 1..10 : Digits[i] = c) - 1

RECURSIVE parseInt(_)
parseInt(str) ==
    IF Len(str) = 0 THEN 0
    ELSE 10 * parseInt(SubSeq(str, 1, Len(str) - 1)) + digitValue(str[Len(str)])

\* String.prototype.split('/')
RECURSIVE split(_)
split(str) ==
    IF \A i \in 1..Len(str) : str[i] # "/"
    THEN <<str>>
    ELSE LET k == CHOOSE i \in 1..Len(str) :
                      str[i] = "/" /\ \A j \in 1..(i - 1) : str[j] # "/"
         IN  <<SubSeq(str, 1, k - 1)>> \o split(SubSeq(str, k + 1, Len(str)))

\* \d+'?
isSegment(str) ==
    LET body == IF Len(str) > 0 /\ str[Len(str)] = "'"
                THEN SubSeq(str, 1, Len(str) - 1) ELSE str
    IN  Len(body) > 0 /\ \A i \in 1..Len(body) : isDigit(body[i])

\* /^(m\/)?(\d+'?\/)*\d+'?$/
BIP32Path(value) ==
    LET rest  == IF Len(value) >= 2 /\ value[1] = "m" /\ value[2] = "/"
                 THEN SubSeq(value, 3, Len(value)) ELSE value
        parts == split(rest)
    IN  \A i \in 1..Len(parts) : isSegment(parts[i])

derivePathStep(prevHd, indexStr) ==
    IF indexStr[Len(indexStr)] = "'"
    THEN deriveHardened(prevHd, parseInt(SubSeq(indexStr, 1, Len(indexStr) - 1)))
    ELSE derive(prevHd, parseInt(indexStr))

\* splitPath.reduce(...): acc is the outcome so far, acc.this the receiver
RECURSIVE derivePathReduce(_, _, _)
derivePathReduce(acc, splitPath, first) ==
    IF ~acc.ok \/ Len(splitPath) = 0 THEN acc
    ELSE LET r == derivePathStep(acc.val, Head(splitPath))
         IN  derivePathReduce(On(IF first THEN r.this ELSE acc.this, r),
                              Tail(splitPath), FALSE)

derivePath(this, path) ==
    IF ~BIP32Path(path) THEN On(this, Throw("Expected BIP32Path"))
    ELSE LET splitPath == split(path)
         IN  IF splitPath[1] = <<"m">>
             THEN IF this.parentFingerprint # 0
                  THEN On(this, Throw("Expected master, got child"))
                  ELSE derivePathReduce(On(this, Return(this)), Tail(splitPath), TRUE)
             ELSE derivePathReduce(On(this, Return(this)), splitPath, TRUE)

----------------------------------------------------------------------------
(* Inputs of the calls *)

Scalars == 0..(2 ^ ScalarBits - 1)

ChainCodes == 0..(2 ^ ChainCodeBits - 1)

Fingerprints == 0..(2 ^ FingerprintBits - 1)

BadNetwork == [wif |-> 256, bip32 |-> [public |-> 76067358, private |-> 76066276]]

OtherNetwork == [wif |-> 239, bip32 |-> [public |-> 70617039, private |-> 70615956]]

NetworkArgs == {NoNetwork, BITCOIN, BadNetwork}

DecodeNetworkArgs == {NoNetwork, BITCOIN, OtherNetwork}

SeedArgs == [len : {0, SEED_MIN - 1, SEED_MIN, SEED_MAX, SEED_MAX + 1}, val : Scalars]

ScalarArgs == [len : {31, 32}, val : Scalars]

ChainCodeArgs == [len : {32}, val : ChainCodes] \cup {[len |-> 33, val |-> 0]}

PointArgs == [len : {33}, val : {2, 3, 4} \X (0..CurveOrder)] \cup {[len |-> 65, val |-> <<2, 1>>]}

IndexArgs == (-1)..(UINT32_MAX + 1)

PathArgs ==
    { <<"m">>, <<"m", "/", "0">>, <<"m", "/", "1", "'">>, <<"m", "/", "0", "/", "1">>,
      <<"0">>, <<"1">>, <<"2">>, <<"4">>, <<"0", "'">>, <<"2", "'">>, <<"0", "1">>,
      <<"1", "/", "0", "'">>, <<"1", "6">>,
      <<>>, <<"m", "/">>, <<"/", "0">>, <<"0", "/">>, <<"m", "0">>, <<"0", "'", "'">>,
      <<"m", "/", "m">> }

\* strings an outside party can make from a serialized node: one field rewritten
\* (checksum recomputed), a byte dropped, or the checksum broken
Forged(string) ==
    LET b == string.payload
    IN  {string, [string EXCEPT !.checksum = (string.checksum + 1) % 16]}
        \cup {bs58checkEncode([b EXCEPT !.length = BUFFER_LENGTH - 1])}
        \cup {bs58checkEncode([b EXCEPT !.version = v]) :
                  v \in {BITCOIN.bip32.public, BITCOIN.bip32.private, 0}}
        \cup {bs58checkEncode([b EXCEPT !.depth = v]) : v \in 0..UINT8_MAX}
        \cup {bs58checkEncode([b EXCEPT !.parentFingerprint = v]) : v \in Fingerprints}
        \cup {bs58checkEncode([b EXCEPT !.index = v]) : v \in 0..UINT32_MAX}
        \cup {bs58checkEncode([b EXCEPT !.key[1] = v]) : v \in {0, 2, 3, 4}}
        \cup {bs58checkEncode([b EXCEPT !.key[2] = v]) : v \in Scalars}

\* exploration stops below this depth
MaxDepth == UINT8_MAX + 1

----------------------------------------------------------------------------
(* The calls.  hd is the node the caller holds, res the call just made and   *)
(* its outcome (out: the string toBase58 returned).  The caller looks at the *)
(* outcome, then makes the next call: res is NoCall between calls.  A call   *)
(* that returns a node leaves the caller holding that node; a call that      *)
(* throws leaves it holding the receiver.                                    *)

Idle == [index |-> 0, requested |-> 0]

Outcome(op, arg, r, out) == [op |-> op, arg |-> arg, ok |-> r.ok, err |-> r.err, out |-> out]

NoCall == [op |-> "", arg |-> 0, ok |-> TRUE, err |-> "", out |-> NoNode]

Init ==
    /\ hd = NoNode
    /\ res = NoCall
    /\ pc = "idle"
    /\ frame = Idle

Static(op, arg, r) ==
    /\ hd' = IF r.ok THEN r.val ELSE hd
    /\ res' = Outcome(op, arg, r, NoNode)
    /\ UNCHANGED <<pc, frame>>

Method(op, arg, r) ==
    /\ r.ok => r.val.depth <= MaxDepth
    /\ hd' = IF r.ok THEN r.val ELSE r.this
    /\ res' = Outcome(op, arg, r, NoNode)
    /\ UNCHANGED <<pc, frame>>

\* The constructors do not read the caller's node: they are explored from the
\* empty slot only.
FromSeed ==
    /\ hd = NoNode /\ res = NoCall
    /\ \E seed \in SeedArgs, network \in NetworkArgs :
        Static("fromSeed", <<seed, network>>, fromSeed(seed, network))

FromPrivateKey ==
    /\ hd = NoNode /\ res = NoCall
    /\ \E privKey \in ScalarArgs, chainCode \in ChainCodeArgs, network \in NetworkArgs :
        Static("fromPrivateKey", <<privKey, chainCode, network>>,
               fromPrivateKey(privKey, chainCode, network))

FromPublicKey ==
    /\ hd = NoNode /\ res = NoCall
    /\ \E pubKey \in PointArgs, chainCode \in ChainCodeArgs, network \in NetworkArgs :
        Static("fromPublicKey", <<pubKey, chainCode, network>>,
               fromPublicKey(pubKey, chainCode, network))

\* what res keeps of a decoded string: length, depth, parentFingerprint, index
Header(string) ==
    <<string.payload.length, string.payload.depth, string.payload.parentFingerprint,
      string.payload.index>>

FromBase58 ==
    /\ res.op = "toBase58" /\ res.ok
    /\ \E string \in Forged(res.out), network \in DecodeNetworkArgs :
           Static("fromBase58", Header(string), fromBase58(string, network))

Neutered ==
    /\ hd # NoNode /\ res = NoCall
    /\ Method("neutered", 0, neutered(hd))

ToBase58 ==
    /\ hd # NoNode /\ res = NoCall
    /\ LET r == toBase58(hd)
       IN  /\ hd' = r.this
           /\ res' = Outcome("toBase58", 0, r, IF r.ok THEN r.val ELSE NoNode)
    /\ UNCHANGED <<pc, frame>>

Derive ==
    /\ hd # NoNode /\ res = NoCall
    /\ \E index \in IndexArgs : Method("derive", index, derive(hd, index))

DeriveHardened ==
    /\ hd # NoNode /\ res = NoCall
    /\ \E index \in IndexArgs : Method("deriveHardened", index, deriveHardened(hd, index))

DerivePath ==
    /\ hd # NoNode /\ res = NoCall
    /\ \E path \in PathArgs : Method("derivePath", path, derivePath(hd, path))

\* the caller has read the outcome of its call
Continue ==
    /\ res # NoCall
    /\ res' = NoCall
    /\ UNCHANGED <<hd, pc, frame>>

Next ==
    \/ FromSeed
    \/ FromPrivateKey
    \/ FromPublicKey
    \/ FromBase58
    \/ Neutered
    \/ ToBase58
    \/ Derive
    \/ DeriveHardened
    \/ DerivePath
    \/ Continue

Spec == Init /\ [][Next]_vars

----------------------------------------------------------------------------
(* derive, one activation at a time: pc = "derive" while a call of          *)
(* hd.derive(frame.requested) is running, frame.index the index of the      *)
(* activation about to run.  res.out is the child returned.                 *)

Receivers ==
    { [d |-> d, Q |-> Q, chainCode |-> c, network |-> BITCOIN,
       depth |-> p[1], index |-> p[2], parentFingerprint |-> p[3]] :
        d \in {undefined} \cup (1..(CurveOrder - 1)),
        Q \in {NoPoint} \cup {pointCompress(k) : k \in 1..(CurveOrder - 1)},
        c \in ChainCodes,
        p \in {<<0, 0, 0>>, <<UINT8_MAX, UINT32_MAX, 1>>} }

InitDerive ==
    /\ hd = NoNode
    /\ res = NoCall
    /\ pc = "idle"
    /\ frame = Idle

\* the caller comes to hold a node: private (public point cached or not) or
\* neutered
Hold ==
    /\ hd = NoNode
    /\ hd' \in { n \in Receivers : IF n.d = undefined THEN n.Q # NoPoint
                                    ELSE n.Q \in {NoPoint, pointFromScalar(n.d)} }
    /\ UNCHANGED <<res, pc, frame>>

DeriveCall ==
    /\ pc = "idle" /\ hd # NoNode
    /\ \E index \in IndexArgs :
           /\ pc' = "derive"
           /\ frame' = [index |-> index, requested |-> index]
    /\ res' = NoCall
    /\ UNCHANGED hd

DeriveActivation ==
    /\ pc = "derive"
    /\ LET f == deriveFrame(hd, frame.index)
       IN  /\ hd' = f.out.this
           /\ IF f.recurse
              THEN /\ pc' = "derive"
                   /\ frame' = [frame EXCEPT !.index = nextIndex(frame.index)]
                   /\ UNCHANGED res
              ELSE /\ pc' = "idle"
                   /\ frame' = frame
                   /\ res' = Outcome("derive", frame.requested, f.out, f.out.val)

NextDerive ==
    \/ Hold
    \/ DeriveCall
    \/ DeriveActivation

\* a running call is never suspended: the program is synchronous
SpecDerive == InitDerive /\ [][NextDerive]_vars /\ WF_vars(DeriveActivation)

----------------------------------------------------------------------------
(* Properties *)

\* The caller holds a node and is about to make a call.  Every node a call
\* returns is held in such a state once the caller has read the outcome.
Holding == hd # NoNode /\ res = NoCall

SameNode(a, b) ==
    /\ publicKey(a) = publicKey(b)
    /\ a.chainCode = b.chainCode
    /\ a.depth = b.depth
    /\ a.index = b.index
    /\ a.parentFingerprint = b.parentFingerprint
    /\ isNeutered(a) = isNeutered(b)

\* C1: for a private node p and 0 <= i < 2^31, neutered(derive(p, i)) and
\* derive(neutered(p), i) both succeed and agree on public point, chainCode,
\* depth, index, parentFingerprint and neutered-state.
C1_NeuteringCommutes ==
    (Holding /\ ~isNeutered(hd)) =>
        \A i \in 0..UINT31_MAX :
            LET a == derive(hd, i)
                b == derive(neutered(hd).val, i)
            IN  /\ a.ok
                /\ b.ok
                /\ neutered(a.val).ok
                /\ SameNode(neutered(a.val).val, b.val)

\* (C1, for the record) the two sides agree whenever the private side returns
\* a child whose index is still a normal one
C1_CommutesBelowHardened ==
    (Holding /\ ~isNeutered(hd)) =>
        \A i \in 0..UINT31_MAX :
            LET a == derive(hd, i)
                b == derive(neutered(hd).val, i)
            IN  (a.ok /\ a.val.index <= UINT31_MAX) =>
                    /\ b.ok
                    /\ neutered(a.val).ok
                    /\ SameNode(neutered(a.val).val, b.val)

MissingPrivateKey == "Missing private key for hardened child key"

\* C2: on a neutered node derive(i) with 2^31 <= i < 2^32 and deriveHardened(j)
\* with 0 <= j <= 2^31 - 1 fail with "missing private key", and no derive,
\* deriveHardened or derivePath call on a neutered node returns a child whose
\* index is >= 2^31 (its children are neutered in turn).
C2_HardenedFromPublicFails ==
    (Holding /\ isNeutered(hd)) =>
        /\ \A i \in IndexArgs :
               LET r == derive(hd, i)
                   h == deriveHardened(hd, i)
               IN  /\ i \in HIGHEST_BIT..UINT32_MAX => (~r.ok /\ r.err = MissingPrivateKey)
                   /\ i \in 0..UINT31_MAX => (~h.ok /\ h.err = MissingPrivateKey)
                   /\ r.ok => (r.val.index < HIGHEST_BIT /\ isNeutered(r.val))
                   /\ ~h.ok
        /\ \A path \in PathArgs :
               LET r == derivePath(hd, path)
               IN  r.ok => (r.val.index < HIGHEST_BIT /\ isNeutered(r.val))

C2_Witness ==
    /\ res.op = "derive" /\ ~res.ok /\ res.err = MissingPrivateKey
    /\ res.arg >= HIGHEST_BIT
    /\ hd # NoNode /\ isNeutered(hd)

SameKeyMaterial(a, b) ==
    /\ isNeutered(a) = isNeutered(b)
    /\ IF isNeutered(a) THEN publicKey(a) = publicKey(b) ELSE privateKey(a) = privateKey(b)

RoundTrips(node) ==
    LET s == toBase58(node)
        r == fromBase58(s.val, node.network)
    IN  /\ s.ok
        /\ r.ok
        /\ r.val.depth = node.depth
        /\ r.val.index = node.index
        /\ r.val.parentFingerprint = node.parentFingerprint
        /\ r.val.chainCode = node.chainCode
        /\ SameKeyMaterial(r.val, node)

\* C3: for every reachable node n, toBase58(n) succeeds and
\* fromBase58(toBase58(n), n.network) succeeds and returns a node with the same
\* depth, index, parentFingerprint, chainCode, neutered-state and key material.
C3_RoundTrip == Holding => RoundTrips(hd)

\* (C3, for the record) the round trip holds of every node whose depth fits a byte
C3_RoundTripWithinDepthByte == (Holding /\ hd.depth <= UINT8_MAX) => RoundTrips(hd)

\* C4: a node of depth 0 has parentFingerprint 0 and index 0; fromSeed returns
\* depth 0, index 0, parentFingerprint 0; fromBase58 returns no node for a
\* 78-byte input whose depth byte is 0 and whose parentFingerprint or index is
\* not 0.
C4_RootInvariant ==
    /\ (hd # NoNode /\ hd.depth = 0) => (hd.parentFingerprint = 0 /\ hd.index = 0)
    /\ (res.op = "fromSeed" /\ res.ok) =>
           (hd.depth = 0 /\ hd.index = 0 /\ hd.parentFingerprint = 0)
    /\ (res.op = "fromBase58" /\ res.arg[1] = BUFFER_LENGTH /\ res.arg[2] = 0
          /\ (res.arg[3] # 0 \/ res.arg[4] # 0)) => ~res.ok
    /\ (res.op = "toBase58" /\ res.ok) =>
           \A string \in Forged(res.out), network \in DecodeNetworkArgs :
               (string.payload.depth = 0
                  /\ (string.payload.parentFingerprint # 0 \/ string.payload.index # 0))
               => ~fromBase58(string, network).ok

C4_Witness ==
    /\ res.op = "fromBase58" /\ ~res.ok /\ res.err = "Invalid index"
    /\ res.arg[1] = BUFFER_LENGTH /\ res.arg[2] = 0 /\ res.arg[3] = 0 /\ res.arg[4] # 0

\* C5: every node has a depth in 0..255, the range of the 1-byte depth field;
\* derivation from a parent of depth 255 yields no node outside it.
C5_DepthRange == hd # NoNode => hd.depth \in 0..UINT8_MAX

MasterPath(path) ==
    \/ path = <<"m">>
    \/ Len(path) >= 2 /\ path[1] = "m" /\ path[2] = "/" /\ BIP32Path(path)

ExpectedMaster == "Expected master, got child"

\* C6: for a path that starts with "m/" or is exactly "m", derivePath on a node
\* with parentFingerprint # 0 fails with "expected master, got child", no
\* derivation applied; on a node with parentFingerprint = 0 the anchor check
\* passes; a path without the leading "m" never fails the anchor check.
C6_MasterAnchor ==
    Holding =>
        \A path \in PathArgs :
            LET r == derivePath(hd, path)
            IN  IF MasterPath(path)
                THEN IF hd.parentFingerprint # 0
                     THEN ~r.ok /\ r.err = ExpectedMaster /\ r.this = hd
                     ELSE r.err # ExpectedMaster
                ELSE r.err # ExpectedMaster

\* (C6, for the record) the same, of the paths that start with "m/"
C6_MasterAnchorSlash ==
    Holding =>
        \A path \in PathArgs \ {<<"m">>} :
            LET r == derivePath(hd, path)
            IN  IF MasterPath(path)
                THEN IF hd.parentFingerprint # 0
                     THEN ~r.ok /\ r.err = ExpectedMaster /\ r.this = hd
                     ELSE r.err # ExpectedMaster
                ELSE r.err # ExpectedMaster

\* C7: derivePath(node, "m") on a node with parentFingerprint = 0 succeeds and
\* returns the node unchanged; path validation accepts "m".
C7_BareMaster ==
    (Holding /\ hd.parentFingerprint = 0) =>
        LET r == derivePath(hd, <<"m">>)
        IN  /\ BIP32Path(<<"m">>)
            /\ r.ok
            /\ SameKeyMaterial(r.val, hd)
            /\ r.val.chainCode = hd.chainCode
            /\ r.val.depth = hd.depth
            /\ r.val.index = hd.index
            /\ r.val.parentFingerprint = hd.parentFingerprint

ValidNetworkArg(network) == network \in {NoNetwork, BITCOIN}

\* C8: fromSeed returns a private root node for every seed of 16..64 bytes,
\* fails with "at least 128 bits" for a shorter seed and with "at most 512
\* bits" for a longer one; the seed's length is the only reason it rejects a
\* seed.
C8_SeedBounds ==
    (res.op = "fromSeed" /\ ValidNetworkArg(res.arg[2])) =>
        LET seed == res.arg[1]
        IN  IF seed.len < SEED_MIN
            THEN ~res.ok /\ res.err = "Seed should be at least 128 bits"
            ELSE IF seed.len > SEED_MAX
            THEN ~res.ok /\ res.err = "Seed should be at most 512 bits"
            ELSE res.ok /\ ~isNeutered(hd) /\ hd.depth = 0

\* C8 as amended: fromSeed fails with "at least 128 bits" for a seed shorter
\* than 16 bytes and with "at most 512 bits" for one longer than 64; for a seed
\* of 16..64 bytes it returns the private root node whose scalar is IL and
\* whose chain code is IR when IL is a scalar in [1, n), and fails with
\* "Private key not in range [1, n)" when it is not.
C8_SeedBoundsOrScalarRange ==
    (res.op = "fromSeed" /\ ValidNetworkArg(res.arg[2])) =>
        LET seed == res.arg[1]
            I    == hmacSHA512(BitcoinSeed, <<seed.len, seed.val>>)
        IN  IF seed.len <= 15
            THEN ~res.ok /\ res.err = "Seed should be at least 128 bits"
            ELSE IF seed.len >= 65
            THEN ~res.ok /\ res.err = "Seed should be at most 512 bits"
            ELSE IF I[1] >= 1 /\ I[1] < CurveOrder
            THEN /\ res.ok
                 /\ hd.d = I[1] /\ hd.chainCode = I[2]
                 /\ hd.depth = 0 /\ hd.index = 0 /\ hd.parentFingerprint = 0
            ELSE ~res.ok /\ res.err = "Private key not in range [1, n)"

C8_Witness ==
    /\ res.op = "fromSeed" /\ ValidNetworkArg(res.arg[2])
    /\ res.arg[1].len \in SEED_MIN..SEED_MAX
    /\ ~res.ok /\ res.err = "Private key not in range [1, n)"

\* the first half of the HMAC derive computes at index k
ILAt(this, k) == hmacSHA512(this.chainCode, deriveData(this, k))[1]

IRAt(this, k) == hmacSHA512(this.chainCode, deriveData(this, k))[2]

\* index k is rejected: IL is no scalar in [1, n), or the sum is 0 mod n (the
\* point sum is the point at infinity)
RejectedAt(this, k) ==
    \/ ILAt(this, k) < 1
    \/ ILAt(this, k) >= CurveOrder
    \/ (IF isNeutered(this) THEN pointScalar(publicKey(this)) ELSE this.d) + ILAt(this, k)
          = CurveOrder

ChildOf(c, this, i) ==
    LET j == c.index
    IN  /\ c.depth = this.depth + 1
        /\ c.parentFingerprint = hash160(publicKey(this))[1]
        /\ j >= i
        /\ \A k \in i..(j - 1) : RejectedAt(this, k)
        /\ ~RejectedAt(this, j)
        /\ c.chainCode = IRAt(this, j)
        /\ isNeutered(c) = isNeutered(this)
        /\ IF isNeutered(this)
           THEN pointScalar(c.Q) = (pointScalar(publicKey(this)) + ILAt(this, j)) % CurveOrder
           ELSE c.d = (this.d + ILAt(this, j)) % CurveOrder

\* C9: a child c that derive(parent, i) returns has depth parent.depth + 1,
\* parentFingerprint the first 4 bytes of parent's identifier, index the first
\* j >= i that is not rejected (every k in i..j-1 is), and the key material
\* and chainCode computed from the HMAC at j (private from a private parent,
\* neutered from a neutered one).
C9_ChildMetadata ==
    /\ Holding =>
           \A i \in IndexArgs :
               LET r == derive(hd, i)
               IN  r.ok => ChildOf(r.val, hd, i)
    /\ (res.op = "derive" /\ res.ok) => (hd.index >= res.arg /\ hd.depth >= 1)

C9_Witness ==
    /\ res.op = "derive" /\ res.ok
    /\ hd.index > res.arg

====
